---- MODULE Spec2Model ----
(***************************************************************************)
(* A model of the audio-chunker server: the upload handler, the background *)
(* job task (processJob and Processor.Process), the delete handler, the    *)
(* job store (SaveJob / LoadJob) over a small file system, and the         *)
(* in-flight registry with its mutex.                                      *)
(***************************************************************************)
EXTENDS Integers, Sequences, FiniteSets, TLC

\* ------------------------------------------------------------------ bounds
\* Upload requests the model lets arrive (each runs its own goroutines).
MaxUploads == 2
\* Chunk files one transcoder run may produce, in the one-upload specification.
MaxFiles == 2
\* Chunk files one transcoder run may produce when uploads run concurrently.
ConcFiles == 1

Uploads == 1..MaxUploads

\* The identifiers newJobID can return. Two requests can draw the same one.
JobIds == {"id1", "id2"}

\* Values resolveChunkDuration can return (always > 0).
ChunkDurations == {2, 3}

\* What an external process can print (runCommand's captured output), as a
\* sequence of lines.
Outputs == {<<"out">>}

\* Durations wavDuration can measure from a chunk file's header.
WavDurations == {1}

\* ------------------------------------------------------------- model.Job
JobStatusPending == "pending"
JobStatusProcessing == "processing"
JobStatusCompleted == "completed"
JobStatusFailed == "failed"

\* time.Time as a count of clock ticks: the server's clock is kept at one
\* instant, SomeTime; the zero time.Time and a nil *time.Time are NilTime.
NilTime == 0
SomeTime == 1

\* The Go zero value of model.Job (what json.Unmarshal starts from).
ZeroJob ==
  [id |-> "", createdAt |-> NilTime, completedAt |-> NilTime,
   chunkDurationSeconds |-> 0, transcriptionRequested |-> FALSE,
   status |-> "", errorMessage |-> "", chunks |-> <<>>, processingLog |-> <<>>]

JobKeys == DOMAIN ZeroJob

IsDone(j) == j.status = JobStatusCompleted \/ j.status = JobStatusFailed

\* The Go zero value of model.Chunk.
ZeroChunk ==
  [index |-> 0, startSeconds |-> 0, durationSeconds |-> 0, audioFile |-> <<>>,
   base64File |-> <<>>, transcriptFile |-> <<>>, transcriptPreview |-> ""]

\* ------------------------------------------------------ JSON (encoding/json)
\* Fields tagged omitempty are left out of the document when they hold their
\* zero value; Unmarshal leaves a missing field at its zero value.
OmittedJobKeys(j) ==
  (IF j.completedAt = NilTime THEN {"completedAt"} ELSE {})
    \cup (IF j.errorMessage = "" THEN {"errorMessage"} ELSE {})
    \cup (IF j.processingLog = <<>> THEN {"processingLog"} ELSE {})

OmittedChunkKeys(c) ==
  (IF c.base64File = <<>> THEN {"base64File"} ELSE {})
    \cup (IF c.transcriptFile = <<>> THEN {"transcriptFile"} ELSE {})
    \cup (IF c.transcriptPreview = "" THEN {"transcriptPreview"} ELSE {})

MarshalChunk(c) == [k \in (DOMAIN ZeroChunk) \ OmittedChunkKeys(c) |-> c[k]]

UnmarshalChunk(d) ==
  [k \in DOMAIN ZeroChunk |-> IF k \in DOMAIN d THEN d[k] ELSE ZeroChunk[k]]

Marshal(j) ==
  [k \in JobKeys \ OmittedJobKeys(j) |->
     IF k = "chunks"
       THEN [i \in 1..Len(j.chunks) |-> MarshalChunk(j.chunks[i])]
       ELSE j[k]]

Unmarshal(d) ==
  [k \in JobKeys |->
     IF k \notin DOMAIN d THEN ZeroJob[k]
     ELSE IF k = "chunks"
       THEN [i \in 1..Len(d.chunks) |-> UnmarshalChunk(d.chunks[i])]
       ELSE d[k]]

\* -------------------------------------------------------------- file system
\* A file is absent, empty (just created or truncated), holds the first part
\* of a document, a whole document, or bytes of more than one write.
Absent == [kind |-> "absent"]
Empty == [kind |-> "empty"]
Part(d) == [kind |-> "part", data |-> d]
Full(d) == [kind |-> "full", data |-> d]
Garbled == [kind |-> "garbled"]

\* A job directory: the directory itself, its subdirectories (original,
\* chunks, base64, transcripts), the uploaded original, the numbers of the
\* chunk files in chunks/, job.json.tmp and job.json.
NoDir ==
  [dir |-> FALSE, tree |-> FALSE, orig |-> FALSE, chunks |-> {},
   tmp |-> Absent, json |-> Absent]

\* --------------------------------------------------------------- threads
Free == [t |-> "free", u |-> 0]
UpTid(u) == [t |-> "up", u |-> u]
DelTid == [t |-> "del", u |-> 0]
DetailTid == [t |-> "detail", u |-> 0]

VARIABLES
  lim,          \* the environment: uploads that arrive, files per run, IDs, inputs
  cfg,          \* server configuration: makeBase64, WhisperBin set or not
  pc,           \* per upload: where its handler / background task stands
  up,           \* per upload: jobID, chunkDuration, transcribe (handler locals)
  job,          \* per upload: the *model.Job the handler built
  sv,           \* per upload: SaveJob's call site, locals and last result
  pr,           \* per upload: Process's locals and returned (result, err)
  jobsInFlight, \* server.jobsInFlight: job ID -> upload whose Job it maps to, 0 = no key
  mu,           \* server.mu: the thread holding it, or Free
  fs,           \* the jobs directory: job ID -> job directory
  del,          \* the delete handler's request in progress
  rd,           \* the job page handler's request, and what its LoadJob got
  top,          \* per job ID: the latest lifecycle stage job.json has held so far
  call          \* a call of wavDuration or ListJobs on its own: argument, locals, result

vars == <<call, lim, cfg, pc, up, job, sv, pr, jobsInFlight, mu, fs, del, rd, top>>


\* Process's locals, whether its ctx is done, and what it returned to
\* processJob.
ZeroPr ==
  [logs |-> <<>>, chunkFiles |-> <<>>, idx |-> 0, chunks |-> <<>>,
   chunk |-> ZeroChunk, calls |-> 0, ctxDone |-> FALSE,
   result |-> [chunks |-> <<>>, logs |-> <<>>], err |-> ""]

\* No call of wavDuration or ListJobs on its own is under way.
NoCall == [fn |-> "none"]

\* The server after main built it, with an empty jobs directory.
ServerInit(nUploads, nFiles, ids, durations, faults, cancel, cfgs) ==
  /\ lim = [uploads |-> nUploads, files |-> nFiles, ids |-> ids,
            durations |-> durations, faults |-> faults, cancel |-> cancel]
  /\ cfg \in cfgs
  /\ pc = [u \in Uploads |-> "idle"]
  /\ up = [u \in Uploads |-> [jobID |-> "", chunkDuration |-> 0, transcribe |-> FALSE]]
  /\ job = [u \in Uploads |-> ZeroJob]
  /\ sv = [u \in Uploads |-> [site |-> 0, data |-> Marshal(ZeroJob), fd |-> "none", err |-> FALSE]]
  /\ pr = [u \in Uploads |-> ZeroPr]
  /\ jobsInFlight = [d \in JobIds |-> 0]
  /\ mu = Free
  /\ fs = [d \in JobIds |-> NoDir]
  /\ del = [pc |-> "idle", id |-> "", inFlight |-> FALSE]
  /\ rd = [pc |-> "idle", id |-> "", res |-> "", inFlight |-> FALSE]
  /\ top = [d \in JobIds |-> 0]

InitWith(nUploads, nFiles, ids, durations, faults, cancel, cfgs) ==
  /\ call = NoCall
  /\ ServerInit(nUploads, nFiles, ids, durations, faults, cancel, cfgs)

\* An operation can fail when what it needs is not there (ok is false) and,
\* where the environment injects I/O and process faults, at any time.
Fault(ok) == lim.faults \/ ~ok

\* The lifecycle stage of a status: pending, processing, terminal.
StageOf(status) ==
  IF status = JobStatusPending THEN 1
  ELSE IF status = JobStatusProcessing THEN 2
  ELSE IF status = JobStatusCompleted \/ status = JobStatusFailed THEN 3
  ELSE 0

\* The stage a reader of that file gets; 0 when it gets no job.
FileStage(f) == IF f.kind = "full" THEN StageOf(Unmarshal(f.data).status) ELSE 0

\* top records the latest stage job.json of d has held, after a step.
RecordTop(d) ==
  top' = [top EXCEPT ![d] = IF FileStage(fs'[d].json) > @ THEN FileStage(fs'[d].json) ELSE @]

\* ------------------------------------------------------- storage.SaveJob
\* A faulty processJob that ends at a failed save: C19 must tell it apart.
AfterSaveStops(site, err) ==
  IF err THEN (IF site = 1 THEN "httperr" ELSE "done")
  ELSE IF site = 1 THEN "register"
  ELSE IF site = 2 THEN "lookpath"
  ELSE "unreg"

\* Where the caller goes on when SaveJob returns: handleUpload gives up on
\* an error (site 1); processJob only logs it (sites 2 and 3).
AfterSave(site, err) ==
  IF site = 1 THEN (IF err THEN "httperr" ELSE "register")
  ELSE IF site = 2 THEN "lookpath"
  ELSE "unreg"

SaveJobReturn(u, err) ==
  /\ pc' = [pc EXCEPT ![u] = AfterSave(sv[u].site, err)]
  /\ sv' = [sv EXCEPT ![u].err = err, ![u].fd = "none"]

\* os.MkdirAll(jobDir).
SaveJobMkdir(u) ==
  /\ pc[u] = "sj_mkdir"
  /\ \/ /\ fs' = [fs EXCEPT ![up[u].jobID].dir = TRUE]
        /\ pc' = [pc EXCEPT ![u] = "sj_open"]
        /\ sv' = sv
     \/ /\ Fault(TRUE)
        /\ SaveJobReturn(u, TRUE)
        /\ fs' = fs
  /\ UNCHANGED <<call, lim, cfg, up, job, pr, jobsInFlight, mu, del, rd, top>>

\* json.MarshalIndent(job), then os.WriteFile's open of job.json.tmp with
\* O_CREATE|O_TRUNC: an existing file is truncated in place.
SaveJobOpen(u) ==
  /\ pc[u] = "sj_open"
  /\ \/ /\ fs[up[u].jobID].dir
        /\ fs' = [fs EXCEPT ![up[u].jobID].tmp = Empty]
        /\ sv' = [sv EXCEPT ![u].data = Marshal(job[u]), ![u].fd = "tmp"]
        /\ pc' = [pc EXCEPT ![u] = "sj_write"]
     \/ /\ Fault(fs[up[u].jobID].dir)
        /\ SaveJobReturn(u, TRUE)
        /\ fs' = fs
  /\ UNCHANGED <<call, lim, cfg, up, job, pr, jobsInFlight, mu, del, rd, top>>

\* What a write of document d at offset 0 leaves in a file that held c.
\* (whole: all of it; otherwise the write failed after a part).
Written(c, d, whole) ==
  IF c # Empty THEN Garbled ELSE IF whole THEN Full(d) ELSE Part(d)

\* The directory after that write to the file the open descriptor now names.
WriteThrough(dir, fd, d, whole) ==
  IF fd = "tmp" THEN [dir EXCEPT !.tmp = Written(dir.tmp, d, whole)]
  ELSE IF fd = "json" THEN [dir EXCEPT !.json = Written(dir.json, d, whole)]
  ELSE dir

\* os.WriteFile's write and close: the whole document, or an error after a
\* part of it.
SaveJobWrite(u) ==
  /\ pc[u] = "sj_write"
  /\ \/ /\ fs' = [fs EXCEPT ![up[u].jobID] = WriteThrough(@, sv[u].fd, sv[u].data, TRUE)]
        /\ pc' = [pc EXCEPT ![u] = "sj_rename"]
        /\ sv' = [sv EXCEPT ![u].fd = "none"]
     \/ /\ Fault(TRUE)
        /\ fs' = [fs EXCEPT ![up[u].jobID] = WriteThrough(@, sv[u].fd, sv[u].data, FALSE)]
        /\ SaveJobReturn(u, TRUE)
  /\ RecordTop(up[u].jobID)
  /\ UNCHANGED <<call, lim, cfg, up, job, pr, jobsInFlight, mu, del, rd>>

\* The descriptors other writers hold on files of directory d, after the
\* name job.json.tmp was moved over job.json.
FdAfterRename(fd) ==
  IF fd = "tmp" THEN "json" ELSE IF fd = "json" THEN "gone" ELSE fd

\* What os.Rename(job.json.tmp, job.json) leaves in the directory.
Renamed(dir) == [dir EXCEPT !.json = dir.tmp, !.tmp = Absent]

\* os.Rename(tmp, job.json), and SaveJob's return.
SaveJobRename(u) ==
  /\ pc[u] = "sj_rename"
  /\ \/ /\ fs[up[u].jobID].tmp # Absent
        /\ fs' = [fs EXCEPT ![up[u].jobID] = Renamed(@)]
        /\ pc' = [pc EXCEPT ![u] = AfterSave(sv[u].site, FALSE)]
        /\ sv' = [v \in Uploads |->
                    IF v = u THEN [sv[v] EXCEPT !.err = FALSE, !.fd = "none"]
                    ELSE IF up[v].jobID = up[u].jobID
                      THEN [sv[v] EXCEPT !.fd = FdAfterRename(@)]
                    ELSE sv[v]]
     \/ /\ Fault(fs[up[u].jobID].tmp # Absent)
        /\ SaveJobReturn(u, TRUE)
        /\ fs' = fs
  /\ RecordTop(up[u].jobID)
  /\ UNCHANGED <<call, lim, cfg, up, job, pr, jobsInFlight, mu, del, rd>>

SaveJob(u) ==
  SaveJobMkdir(u) \/ SaveJobOpen(u) \/ SaveJobWrite(u) \/ SaveJobRename(u)

\* ------------------------------------------------------- storage.LoadJob
\* os.ReadFile(job.json) and json.Unmarshal: the job, or an error.
LoadJob(dir) ==
  IF dir.json.kind = "absent" THEN [err |-> "reading job file", job |-> ZeroJob]
  ELSE IF dir.json.kind = "full" THEN [err |-> "", job |-> Unmarshal(dir.json.data)]
  ELSE [err |-> "unmarshalling job file", job |-> ZeroJob]


\* ------------------------------------------------------ handleUpload
\* newJobID: a timestamp to the second and rand.Intn(10000); nothing keeps
\* two requests from getting the same one.
newJobID == lim.ids

\* A POST with a video part arrives (any other request changes nothing):
\* resolveChunkDuration, the transcribe box and newJobID give the locals.
UploadRequest(u) ==
  /\ pc[u] = "idle"
  /\ u <= lim.uploads
  /\ \E id \in newJobID, d \in lim.durations, t \in BOOLEAN :
       up' = [up EXCEPT ![u] = [jobID |-> id, chunkDuration |-> d, transcribe |-> t]]
  /\ pc' = [pc EXCEPT ![u] = "ensure"]
  /\ UNCHANGED <<call, lim, cfg, job, sv, pr, jobsInFlight, mu, fs, del, rd, top>>

\* storage.EnsureJobSubdirs(jobDir, original, chunks, base64, transcripts).
EnsureJobSubdirs(u) ==
  /\ pc[u] = "ensure"
  /\ \/ /\ fs' = [fs EXCEPT ![up[u].jobID].dir = TRUE, ![up[u].jobID].tree = TRUE]
        /\ pc' = [pc EXCEPT ![u] = "create"]
     \/ /\ Fault(TRUE)
        /\ pc' = [pc EXCEPT ![u] = "httperr"]
        /\ fs' = fs
  /\ UNCHANGED <<call, lim, cfg, up, job, sv, pr, jobsInFlight, mu, del, rd, top>>

\* The Job handleUpload builds.
NewJob(u) ==
  [ZeroJob EXCEPT !.id = up[u].jobID, !.createdAt = SomeTime,
                  !.chunkDurationSeconds = up[u].chunkDuration,
                  !.transcriptionRequested = up[u].transcribe,
                  !.status = JobStatusPending]

\* os.Create, io.Copy and Close of the original, the Job literal, and the
\* call of SaveJob.
StoreOriginal(u) ==
  /\ pc[u] = "create"
  /\ \/ /\ fs[up[u].jobID].tree
        /\ fs' = [fs EXCEPT ![up[u].jobID].orig = TRUE]
        /\ job' = [job EXCEPT ![u] = NewJob(u)]
        /\ sv' = [sv EXCEPT ![u].site = 1]
        /\ pc' = [pc EXCEPT ![u] = "sj_mkdir"]
     \/ /\ Fault(fs[up[u].jobID].tree)
        /\ pc' = [pc EXCEPT ![u] = "httperr"]
        /\ UNCHANGED <<fs, job, sv>>
  /\ UNCHANGED <<call, lim, cfg, up, pr, jobsInFlight, mu, del, rd, top>>

\* s.mu.Lock(); s.jobsInFlight[jobID] = job
Register(u) ==
  /\ pc[u] = "register"
  /\ mu = Free
  /\ mu' = UpTid(u)
  /\ jobsInFlight' = [jobsInFlight EXCEPT ![up[u].jobID] = u]
  /\ pc' = [pc EXCEPT ![u] = "reg_unlock"]
  /\ UNCHANGED <<call, lim, cfg, up, job, sv, pr, fs, del, rd, top>>

\* A faulty handleUpload that goes on without unlocking: C18 must tell it apart.
RegisterKeepsLock(u) ==
  /\ pc[u] = "reg_unlock"
  /\ pc' = [pc EXCEPT ![u] = "spawn"]
  /\ UNCHANGED <<call, lim, cfg, up, job, sv, pr, jobsInFlight, mu, fs, del, rd, top>>

\* s.mu.Unlock()
RegisterUnlock(u) ==
  /\ pc[u] = "reg_unlock"
  /\ mu' = Free
  /\ pc' = [pc EXCEPT ![u] = "spawn"]
  /\ UNCHANGED <<call, lim, cfg, up, job, sv, pr, jobsInFlight, fs, del, rd, top>>

\* go s.processJob(...): the background task exists from here on.
Spawn(u) ==
  /\ pc[u] = "spawn"
  /\ pc' = [pc EXCEPT ![u] = "pj_begin"]
  /\ UNCHANGED <<call, lim, cfg, up, job, sv, pr, jobsInFlight, mu, fs, del, rd, top>>

handleUpload(u) ==
  \/ UploadRequest(u) \/ EnsureJobSubdirs(u) \/ StoreOriginal(u)
  \/ Register(u) \/ RegisterUnlock(u) \/ Spawn(u)

\* ------------------------------------------------------ processJob
\* strings.Join(entries, "\n---\n"): the entries' lines with the delimiter
\* between them.
Delimiter == "---"

\* A faulty Join that leaves the delimiter out: C8 must tell it apart.
RECURSIVE JoinNoDelimiter(_)
JoinNoDelimiter(entries) ==
  IF entries = <<>> THEN <<>> ELSE entries[1] \o JoinNoDelimiter(Tail(entries))

RECURSIVE Join(_)
Join(entries) ==
  IF entries = <<>> THEN <<>>
  ELSE IF Len(entries) = 1 THEN entries[1]
  ELSE entries[1] \o <<Delimiter>> \o Join(Tail(entries))

\* A faulty processJob that calls SaveJob before it sets the status: C20 must
\* tell it apart.
ProcessJobBeginUnmarked(u) ==
  /\ pc[u] = "pj_begin"
  /\ job' = [job EXCEPT ![u].errorMessage = "", ![u].processingLog = <<>>]
  /\ sv' = [sv EXCEPT ![u].site = 2]
  /\ pc' = [pc EXCEPT ![u] = "sj_mkdir"]
  /\ UNCHANGED <<call, lim, cfg, up, pr, jobsInFlight, mu, fs, del, rd, top>>

\* The job's first three assignments and the call of SaveJob.
ProcessJobBegin(u) ==
  /\ pc[u] = "pj_begin"
  /\ job' = [job EXCEPT ![u].status = JobStatusProcessing,
                        ![u].errorMessage = "",
                        ![u].processingLog = <<>>]
  /\ sv' = [sv EXCEPT ![u].site = 2]
  /\ pc' = [pc EXCEPT ![u] = "sj_mkdir"]
  /\ UNCHANGED <<call, lim, cfg, up, pr, jobsInFlight, mu, fs, del, rd, top>>

\* A faulty variant of Finished whose failure branch sets no completion
\* time: C4 must tell it apart.
FinishedUnstamped(j, result, err) ==
  IF err # ""
    THEN [j EXCEPT !.status = JobStatusFailed,
                   !.errorMessage = err,
                   !.chunks = result.chunks,
                   !.processingLog = Join(Append(result.logs, <<err>>))]
    ELSE [j EXCEPT !.status = JobStatusCompleted,
                   !.errorMessage = "",
                   !.chunks = result.chunks,
                   !.processingLog = Join(result.logs),
                   !.completedAt = SomeTime]

\* A faulty variant of Finished whose failure branch records no error
\* message: C5 must tell it apart.
FinishedSilent(j, result, err) ==
  IF err # ""
    THEN [j EXCEPT !.status = JobStatusFailed,
                   !.chunks = result.chunks,
                   !.processingLog = Join(Append(result.logs, <<err>>)),
                   !.completedAt = SomeTime]
    ELSE [j EXCEPT !.status = JobStatusCompleted,
                   !.errorMessage = "",
                   !.chunks = result.chunks,
                   !.processingLog = Join(result.logs),
                   !.completedAt = SomeTime]

\* The job after Process returned (result, err): err = "" is Go's nil.
Finished(j, result, err) ==
  IF err # ""
    THEN [j EXCEPT !.status = JobStatusFailed,
                   !.errorMessage = err,
                   !.chunks = result.chunks,
                   !.processingLog = Join(Append(result.logs, <<err>>)),
                   !.completedAt = SomeTime]
    ELSE [j EXCEPT !.status = JobStatusCompleted,
                   !.errorMessage = "",
                   !.chunks = result.chunks,
                   !.processingLog = Join(result.logs),
                   !.completedAt = SomeTime]

\* The branch on Process's error, and the call of the final SaveJob.
ProcessJobFinish(u) ==
  /\ pc[u] = "pj_finish"
  /\ job' = [job EXCEPT ![u] = Finished(@, pr[u].result, pr[u].err)]
  /\ sv' = [sv EXCEPT ![u].site = 3]
  /\ pc' = [pc EXCEPT ![u] = "sj_mkdir"]
  /\ UNCHANGED <<call, lim, cfg, up, pr, jobsInFlight, mu, fs, del, rd, top>>

\* s.mu.Lock(); delete(s.jobsInFlight, job.ID)
Unregister(u) ==
  /\ pc[u] = "unreg"
  /\ mu = Free
  /\ mu' = UpTid(u)
  /\ jobsInFlight' = [jobsInFlight EXCEPT ![job[u].id] = 0]
  /\ pc' = [pc EXCEPT ![u] = "unreg_unlock"]
  /\ UNCHANGED <<call, lim, cfg, up, job, sv, pr, fs, del, rd, top>>

\* s.mu.Unlock(), and the task ends.
UnregisterUnlock(u) ==
  /\ pc[u] = "unreg_unlock"
  /\ mu' = Free
  /\ pc' = [pc EXCEPT ![u] = "done"]
  /\ UNCHANGED <<call, lim, cfg, up, job, sv, pr, jobsInFlight, fs, del, rd, top>>


\* ------------------------------------------------------ Processor.Process
\* The decimal digits of n, most significant first.
RECURSIVE Digits(_)
Digits(n) == IF n < 10 THEN <<n>> ELSE Append(Digits(n \div 10), n % 10)

\* fmt's %03d: at least three digits, zero-padded on the left.
PadWidth == 3
Pad(n) ==
  LET d == Digits(n)
      z == PadWidth - Len(d)
  IN IF z <= 0 THEN d ELSE [i \in 1..PadWidth |-> IF i <= z THEN 0 ELSE d[i - z]]

\* The file name chunk_%03d.wav, as its digits (the rest is the same in all).
ChunkName(n) == Pad(n)

\* Go's string order on two names: byte by byte, a prefix first.
RECURSIVE LexLess(_, _)
LexLess(a, b) ==
  IF b = <<>> THEN FALSE
  ELSE IF a = <<>> THEN TRUE
  ELSE IF Head(a) < Head(b) THEN TRUE
  ELSE IF Head(a) > Head(b) THEN FALSE
  ELSE LexLess(Tail(a), Tail(b))

RECURSIVE InsertSorted(_, _)
InsertSorted(x, s) ==
  IF s = <<>> THEN <<x>>
  ELSE IF LexLess(Head(s), x) THEN <<Head(s)>> \o InsertSorted(x, Tail(s))
  ELSE <<x>> \o s

\* A faulty sort that keeps the order it was given: C9 must tell it apart.
SortStringsKeep(s) == s

\* sort.Strings(chunkFiles).
RECURSIVE SortStrings(_)
SortStrings(s) ==
  IF s = <<>> THEN <<>> ELSE InsertSorted(Head(s), SortStrings(Tail(s)))

\* filepath.Glob(chunks/chunk_*.wav): the matching names, in some order;
\* nothing when the directory cannot be read.
Glob(dir) ==
  LET names == IF dir.tree THEN {ChunkName(n) : n \in dir.chunks} ELSE {}
  IN {s \in [1..Cardinality(names) -> names] :
        \A i, j \in DOMAIN s : i # j => s[i] # s[j]}

\* Whether the chunk file of that name is there to be opened.
ChunkFileExists(dir, name) == dir.tree /\ \E n \in dir.chunks : ChunkName(n) = name

\* Process returns (result, err) to processJob; err = "" is nil.
ProcessReturn(u, chunks, logs, err) ==
  /\ pr' = [pr EXCEPT ![u].result = [chunks |-> chunks, logs |-> logs], ![u].err = err]
  /\ pc' = [pc EXCEPT ![u] = "pj_finish"]

\* exec.LookPath(ffmpeg).
LookPath(u) ==
  /\ pc[u] = "lookpath"
  /\ \/ /\ pc' = [pc EXCEPT ![u] = "mkdirs"]
        /\ pr' = pr
     \/ /\ Fault(TRUE)
        /\ ProcessReturn(u, <<>>, <<>>, "ffmpeg binary not found")
  /\ UNCHANGED <<call, lim, cfg, up, job, sv, jobsInFlight, mu, fs, del, rd, top>>

\* os.MkdirAll of chunks, base64 and transcripts.
ProcessMkdirs(u) ==
  /\ pc[u] = "mkdirs"
  /\ \/ /\ fs' = [fs EXCEPT ![up[u].jobID].dir = TRUE, ![up[u].jobID].tree = TRUE]
        /\ pc' = [pc EXCEPT ![u] = "ffmpeg"]
        /\ pr' = pr
     \/ /\ Fault(TRUE)
        /\ ProcessReturn(u, <<>>, <<>>, "creating processing directory")
        /\ fs' = fs
  /\ UNCHANGED <<call, lim, cfg, up, job, sv, jobsInFlight, mu, del, rd, top>>

\* Whether a command run with exec.CommandContext(ctx, ...) can end with
\* exit status zero: not when ctx is done (it is not started, or is killed).
CanRun(u) == ~pr[u].ctxDone

\* runCommand(ctx, ffmpeg, args...): the captured output is the first log
\* entry whatever the exit status. Exit status zero needs the input and the
\* output directory; the segmenter then wrote files 0..n-1.
RunFfmpeg(u) ==
  /\ pc[u] = "ffmpeg"
  /\ \E out \in Outputs :
       \/ /\ fs[up[u].jobID].tree /\ fs[up[u].jobID].orig /\ CanRun(u)
          /\ \E n \in 0..lim.files :
               fs' = [fs EXCEPT ![up[u].jobID].chunks = @ \cup (0..(n - 1))]
          /\ pr' = [pr EXCEPT ![u].logs = <<out>>, ![u].calls = @ + 1]
          /\ pc' = [pc EXCEPT ![u] = "glob"]
       \/ /\ Fault(fs[up[u].jobID].tree /\ fs[up[u].jobID].orig /\ CanRun(u))
          /\ pr' = [pr EXCEPT ![u].logs = <<out>>, ![u].calls = @ + 1,
                              ![u].result = [chunks |-> <<>>, logs |-> <<out>>],
                              ![u].err = "running ffmpeg"]
          /\ pc' = [pc EXCEPT ![u] = "pj_finish"]
          /\ fs' = fs
  /\ UNCHANGED <<call, lim, cfg, up, job, sv, jobsInFlight, mu, del, rd, top>>

\* A faulty variant of GlobChunks without the check for an empty result:
\* C11 must tell it apart.
GlobChunksUnchecked(u) ==
  /\ pc[u] = "glob"
  /\ \E found \in Glob(fs[up[u].jobID]) :
       /\ pr' = [pr EXCEPT ![u].chunkFiles = SortStrings(found), ![u].chunks = <<>>,
                           ![u].idx = 0]
       /\ pc' = [pc EXCEPT ![u] = "loop"]
  /\ UNCHANGED <<call, lim, cfg, up, job, sv, jobsInFlight, mu, fs, del, rd, top>>

\* filepath.Glob, sort.Strings, the empty check and make([]model.Chunk, 0, n).
\* (Glob's own error is ErrBadPattern only, which this pattern never gives.)
GlobChunks(u) ==
  /\ pc[u] = "glob"
  /\ \E found \in Glob(fs[up[u].jobID]) :
       LET chunkFiles == SortStrings(found) IN
       \/ /\ Len(chunkFiles) = 0
          /\ ProcessReturn(u, <<>>, pr[u].logs, "no audio chunks produced")
       \/ /\ Len(chunkFiles) > 0
          /\ pr' = [pr EXCEPT ![u].chunkFiles = chunkFiles, ![u].chunks = <<>>, ![u].idx = 0]
          /\ pc' = [pc EXCEPT ![u] = "loop"]
  /\ UNCHANGED <<call, lim, cfg, up, job, sv, jobsInFlight, mu, fs, del, rd, top>>

\* A faulty variant of LoopHead that returns the chunks built so far when
\* ctx is done: C13 must tell it apart.
LoopHeadPartial(u) ==
  /\ pc[u] = "loop"
  /\ \/ /\ pr[u].idx < Len(pr[u].chunkFiles)
        /\ ~pr[u].ctxDone
        /\ pc' = [pc EXCEPT ![u] = "wav"]
        /\ pr' = pr
     \/ /\ pr[u].idx < Len(pr[u].chunkFiles)
        /\ pr[u].ctxDone
        /\ ProcessReturn(u, pr[u].chunks, pr[u].logs, "context canceled")
     \/ /\ pr[u].idx >= Len(pr[u].chunkFiles)
        /\ ProcessReturn(u, pr[u].chunks, pr[u].logs, "")
  /\ UNCHANGED <<call, lim, cfg, up, job, sv, jobsInFlight, mu, fs, del, rd, top>>

\* The range loop's head: the select on ctx.Done() with a default case
\* takes the Done case whenever ctx is done. (processJob passes
\* context.Background(), which never is.)
LoopHead(u) ==
  /\ pc[u] = "loop"
  /\ \/ /\ pr[u].idx < Len(pr[u].chunkFiles)
        /\ ~pr[u].ctxDone
        /\ pc' = [pc EXCEPT ![u] = "wav"]
        /\ pr' = pr
     \/ /\ pr[u].idx < Len(pr[u].chunkFiles)
        /\ pr[u].ctxDone
        /\ ProcessReturn(u, <<>>, pr[u].logs, "context canceled")
     \/ /\ pr[u].idx >= Len(pr[u].chunkFiles)
        /\ ProcessReturn(u, pr[u].chunks, pr[u].logs, "")
  /\ UNCHANGED <<call, lim, cfg, up, job, sv, jobsInFlight, mu, fs, del, rd, top>>

\* transcribe := opts.Transcribe && p.WhisperBin != ""
Transcribe(u) == up[u].transcribe /\ cfg.whisperBin

\* chunks = append(chunks, chunk), and the next iteration.
AppendChunk(u, chunk) ==
  /\ pr' = [pr EXCEPT ![u].chunks = Append(@, chunk), ![u].chunk = ZeroChunk,
                      ![u].idx = @ + 1]
  /\ pc' = [pc EXCEPT ![u] = "loop"]

\* The model.Chunk literal of one iteration.
NewChunk(idx, chunkDuration, duration, chunkPath) ==
  [ZeroChunk EXCEPT !.index = idx,
                    !.startSeconds = idx * chunkDuration,
                    !.durationSeconds = duration,
                    !.audioFile = <<"chunks", chunkPath>>]

\* wavDuration(chunkPath) and the chunk literal.
InspectWav(u) ==
  /\ pc[u] = "wav"
  /\ LET chunkPath == pr[u].chunkFiles[pr[u].idx + 1] IN
     \/ /\ ChunkFileExists(fs[up[u].jobID], chunkPath)
        /\ \E duration \in WavDurations :
             LET chunk == NewChunk(pr[u].idx, up[u].chunkDuration, duration, chunkPath) IN
             IF cfg.makeBase64 \/ Transcribe(u)
               THEN /\ pr' = [pr EXCEPT ![u].chunk = chunk]
                    /\ pc' = [pc EXCEPT ![u] = IF cfg.makeBase64 THEN "b64" ELSE "whisper"]
               ELSE AppendChunk(u, chunk)
     \/ /\ Fault(ChunkFileExists(fs[up[u].jobID], chunkPath))
        /\ ProcessReturn(u, <<>>, pr[u].logs, "determining chunk duration")
  /\ UNCHANGED <<call, lim, cfg, up, job, sv, jobsInFlight, mu, fs, del, rd, top>>

\* writeBase64File(chunkPath, base64Path).
WriteBase64(u) ==
  /\ pc[u] = "b64"
  /\ LET chunkPath == pr[u].chunkFiles[pr[u].idx + 1] IN
     \/ /\ ChunkFileExists(fs[up[u].jobID], chunkPath)
        /\ LET chunk == [pr[u].chunk EXCEPT !.base64File = <<"base64", chunkPath>>] IN
           IF Transcribe(u)
             THEN /\ pr' = [pr EXCEPT ![u].chunk = chunk]
                  /\ pc' = [pc EXCEPT ![u] = "whisper"]
             ELSE AppendChunk(u, chunk)
     \/ /\ Fault(ChunkFileExists(fs[up[u].jobID], chunkPath))
        /\ ProcessReturn(u, <<>>, pr[u].logs, "creating base64 dump")
  /\ UNCHANGED <<call, lim, cfg, up, job, sv, jobsInFlight, mu, fs, del, rd, top>>

\* A faulty variant of RunWhisper in which a failed transcription ends the
\* run with an error: C12 must tell it apart.
RunWhisperFatal(u) ==
  /\ pc[u] = "whisper"
  /\ \E out \in Outputs :
       LET logs == Append(pr[u].logs, out) IN
       \/ /\ CanRun(u)
          /\ pr' = [pr EXCEPT ![u].logs = logs, ![u].calls = @ + 1]
          /\ pc' = [pc EXCEPT ![u] = "preview"]
       \/ /\ Fault(CanRun(u))
          /\ pr' = [pr EXCEPT ![u].logs = logs, ![u].calls = @ + 1,
                              ![u].result = [chunks |-> <<>>, logs |-> logs],
                              ![u].err = "running whisper"]
          /\ pc' = [pc EXCEPT ![u] = "pj_finish"]
  /\ UNCHANGED <<call, lim, cfg, up, job, sv, jobsInFlight, mu, fs, del, rd, top>>

\* runCommand(ctx, p.WhisperBin, args...): its output is appended to the
\* logs; a failure only leaves a placeholder preview on the chunk.
RunWhisper(u) ==
  /\ pc[u] = "whisper"
  /\ \E out \in Outputs :
       LET logs == Append(pr[u].logs, out) IN
       \/ /\ CanRun(u)
          /\ pr' = [pr EXCEPT ![u].logs = logs, ![u].calls = @ + 1]
          /\ pc' = [pc EXCEPT ![u] = "preview"]
       \/ /\ Fault(CanRun(u))
          /\ pr' = [pr EXCEPT ![u].logs = logs, ![u].calls = @ + 1,
                              ![u].chunks = Append(@, [pr[u].chunk EXCEPT
                                 !.transcriptPreview = "transcription failed"]),
                              ![u].chunk = ZeroChunk,
                              ![u].idx = @ + 1]
          /\ pc' = [pc EXCEPT ![u] = "loop"]
  /\ UNCHANGED <<call, lim, cfg, up, job, sv, jobsInFlight, mu, fs, del, rd, top>>

\* readPreview(transcriptPath, 400).
ReadPreview(u) ==
  /\ pc[u] = "preview"
  /\ LET chunkPath == pr[u].chunkFiles[pr[u].idx + 1] IN
     \/ /\ fs[up[u].jobID].tree
        /\ AppendChunk(u, [pr[u].chunk EXCEPT
              !.transcriptPreview = "text",
              !.transcriptFile = <<"transcripts", chunkPath>>])
     \/ /\ Fault(fs[up[u].jobID].tree)
        /\ AppendChunk(u, [pr[u].chunk EXCEPT !.transcriptPreview = "unable to read transcript"])
  /\ UNCHANGED <<call, lim, cfg, up, job, sv, jobsInFlight, mu, fs, del, rd, top>>

\* The caller of Process cancels the context it passed, at any moment from
\* the call to the return (only a caller that passed a cancellable one).
InProcess(u) ==
  pc[u] \in {"lookpath", "mkdirs", "ffmpeg", "glob", "loop", "wav", "b64", "whisper", "preview"}

CancelContext(u) ==
  /\ lim.cancel
  /\ InProcess(u)
  /\ ~pr[u].ctxDone
  /\ pr' = [pr EXCEPT ![u].ctxDone = TRUE]
  /\ UNCHANGED <<call, lim, cfg, pc, up, job, sv, jobsInFlight, mu, fs, del, rd, top>>

Process(u) ==
  \/ LookPath(u) \/ ProcessMkdirs(u) \/ RunFfmpeg(u) \/ GlobChunks(u)
  \/ LoopHead(u) \/ InspectWav(u) \/ WriteBase64(u) \/ RunWhisper(u) \/ ReadPreview(u)

processJob(u) ==
  \/ ProcessJobBegin(u) \/ Process(u) \/ ProcessJobFinish(u)
  \/ Unregister(u) \/ UnregisterUnlock(u)


\* ------------------------------------------------------ handleJobDelete
\* A POST to /jobs/{id}/delete: s.mu.Lock() and the registry lookup.
DeleteLock(d) ==
  /\ del.pc = "idle"
  /\ mu = Free
  /\ mu' = DelTid
  /\ del' = [pc |-> "unlock", id |-> d, inFlight |-> jobsInFlight[d] # 0]
  /\ UNCHANGED <<call, lim, cfg, pc, up, job, sv, pr, jobsInFlight, fs, rd, top>>

\* s.mu.Unlock(), and the branch on inFlight.
DeleteUnlock ==
  /\ del.pc = "unlock"
  /\ mu' = Free
  /\ del' = [del EXCEPT !.pc = IF del.inFlight THEN "busy" ELSE "remove"]
  /\ UNCHANGED <<call, lim, cfg, pc, up, job, sv, pr, jobsInFlight, fs, rd, top>>

\* What os.RemoveAll's unlinking leaves of the directory's entries.
Emptied(dir) ==
  [dir EXCEPT !.tree = FALSE, !.orig = FALSE, !.chunks = {},
              !.tmp = Absent, !.json = Absent]

\* os.RemoveAll(jobDir) unlinks what it finds in the directory; files that
\* a writer still holds open lose their names.
DeleteUnlink ==
  /\ del.pc = "remove"
  /\ fs' = [fs EXCEPT ![del.id] = Emptied(@)]
  /\ sv' = [v \in Uploads |->
              IF up[v].jobID = del.id /\ sv[v].fd \in {"tmp", "json"}
                THEN [sv[v] EXCEPT !.fd = "gone"] ELSE sv[v]]
  /\ del' = [del EXCEPT !.pc = "rmdir"]
  /\ UNCHANGED <<call, lim, cfg, pc, up, job, pr, jobsInFlight, mu, rd, top>>

\* os.RemoveAll's last step removes the directory if it is still empty (a
\* missing one is no error).
DeleteRmdir ==
  /\ del.pc = "rmdir"
  /\ fs[del.id] = Emptied(fs[del.id])
  /\ fs' = [fs EXCEPT ![del.id].dir = FALSE]
  /\ del' = [del EXCEPT !.pc = "deleted"]
  /\ UNCHANGED <<call, lim, cfg, pc, up, job, sv, pr, jobsInFlight, mu, rd, top>>

\* os.RemoveAll gives up with an error (an entry it cannot unlink, or a
\* directory that filled again under it).
DeleteFail ==
  /\ del.pc \in {"remove", "rmdir"}
  /\ Fault(del.pc = "rmdir" => fs[del.id] = Emptied(fs[del.id]))
  /\ del' = [del EXCEPT !.pc = "failed"]
  /\ UNCHANGED <<call, lim, cfg, pc, up, job, sv, pr, jobsInFlight, mu, fs, rd, top>>

\* The redirect that ends the request: "Unable to delete while processing",
\* "Job deleted" or "Failed to delete job".
DeleteRespond ==
  /\ del.pc \in {"busy", "deleted", "failed"}
  /\ del' = [pc |-> "idle", id |-> "", inFlight |-> FALSE]
  /\ UNCHANGED <<call, lim, cfg, pc, up, job, sv, pr, jobsInFlight, mu, fs, rd, top>>

handleJobDelete ==
  \/ \E d \in lim.ids : DeleteLock(d)
  \/ DeleteUnlock \/ DeleteUnlink \/ DeleteRmdir \/ DeleteFail \/ DeleteRespond

\* ------------------------------------------------------ handleJobDetail
\* What the handler got from storage.LoadJob: the job's status, or the error.
Loaded(dir) == LET r == LoadJob(dir) IN IF r.err # "" THEN r.err ELSE r.job.status

\* GET /jobs/{id}: storage.LoadJob; an error ends the request with 404.
DetailLoad(d) ==
  /\ rd.pc = "idle"
  /\ rd' = [pc |-> IF LoadJob(fs[d]).err # "" THEN "notfound" ELSE "lock",
            id |-> d, res |-> Loaded(fs[d]), inFlight |-> FALSE]
  /\ UNCHANGED <<call, lim, cfg, pc, up, job, sv, pr, jobsInFlight, mu, fs, del, top>>

\* s.mu.Lock() and the registry lookup for the page's delete button.
DetailLock ==
  /\ rd.pc = "lock"
  /\ mu = Free
  /\ mu' = DetailTid
  /\ rd' = [rd EXCEPT !.pc = "unlock", !.res = "", !.inFlight = jobsInFlight[rd.id] # 0]
  /\ UNCHANGED <<call, lim, cfg, pc, up, job, sv, pr, jobsInFlight, fs, del, top>>

\* s.mu.Unlock()
DetailUnlock ==
  /\ rd.pc = "unlock"
  /\ mu' = Free
  /\ rd' = [rd EXCEPT !.pc = "render"]
  /\ UNCHANGED <<call, lim, cfg, pc, up, job, sv, pr, jobsInFlight, fs, del, top>>

\* The response: the job page, or 404 with LoadJob's error.
DetailRespond ==
  /\ rd.pc \in {"render", "notfound"}
  /\ rd' = [pc |-> "idle", id |-> "", res |-> "", inFlight |-> FALSE]
  /\ UNCHANGED <<call, lim, cfg, pc, up, job, sv, pr, jobsInFlight, mu, fs, del, top>>

handleJobDetail ==
  \/ \E d \in lim.ids : DetailLoad(d)
  \/ DetailLock \/ DetailUnlock \/ DetailRespond

\* ------------------------------------------------------ the server
Next ==
  \/ \E u \in Uploads : handleUpload(u) \/ SaveJob(u) \/ processJob(u)
  \/ handleJobDelete
  \/ handleJobDetail

\* One upload, with a transcoder run of up to MaxFiles chunk files.
Configs == [makeBase64 : BOOLEAN, whisperBin : BOOLEAN]
Init == InitWith(1, MaxFiles, {"id1"}, ChunkDurations, TRUE, FALSE, Configs)
Spec == Init /\ [][Next]_vars

\* MaxUploads concurrent uploads and job page requests, each upload with up
\* to ConcFiles chunk files, on a server with base64 dumps and a
\* transcription binary; no delete requests, and no I/O or process faults.
NextConc ==
  \/ \E u \in Uploads : handleUpload(u) \/ SaveJob(u) \/ processJob(u)
  \/ handleJobDetail

InitConc ==
  InitWith(MaxUploads, ConcFiles, JobIds, {2}, FALSE, FALSE,
           {[makeBase64 |-> TRUE, whisperBin |-> TRUE]})
SpecConc == InitConc /\ [][NextConc]_vars

\* Process called with a context its caller can cancel at any moment: one
\* upload with up to MaxFiles chunk files, no other request, no other fault.
NextCancel ==
  \E u \in Uploads : handleUpload(u) \/ SaveJob(u) \/ processJob(u) \/ CancelContext(u)

InitCancel == InitWith(1, MaxFiles, {"id1"}, {2}, FALSE, TRUE, Configs)
SpecCancel == InitCancel /\ [][NextCancel]_vars

\* Process called with a context that its caller cancels only while
\* runCommand is under way (from its call to the return of cmd.Run), so
\* that a done context always was cancelled during the invocation at hand.
DuringCommand(u) == pc[u] \in {"ffmpeg", "whisper"}

NextKill ==
  \E u \in Uploads :
    \/ handleUpload(u) \/ SaveJob(u) \/ processJob(u)
    \/ DuringCommand(u) /\ CancelContext(u)

SpecKill == InitCancel /\ [][NextKill]_vars

\* Two uploads, where the transcoder that upload 1 starts never returns
\* (cmd.Run blocks for good; processJob's context is never cancelled), and
\* delete requests and job page requests that arrive, one at a time, while
\* it hangs. The scheduler runs every goroutine that can take a step, and
\* sync.Mutex hands the lock to a goroutine that keeps waiting for it
\* (starvation mode): each task and each request in progress takes its next
\* step if that step is possible again and again.
Hangs(u) == u = 1 /\ pc[u] = "ffmpeg"
Steps(u) == handleUpload(u) \/ SaveJob(u) \/ processJob(u)
RequestDuringHang == Hangs(1) /\ del.pc = "idle" /\ rd.pc = "idle"
DeleteSteps == DeleteUnlock \/ DeleteUnlink \/ DeleteRmdir \/ DeleteFail \/ DeleteRespond
DetailSteps == DetailLock \/ DetailUnlock \/ DetailRespond

NextHang ==
  \/ \E u \in Uploads : ~Hangs(u) /\ Steps(u)
  \/ RequestDuringHang /\ \E d \in lim.ids : DeleteLock(d) \/ DetailLoad(d)
  \/ DeleteSteps
  \/ DetailSteps

FairHang ==
  /\ \A u \in Uploads : SF_vars(~Hangs(u) /\ Steps(u))
  /\ WF_vars(DeleteSteps)
  /\ SF_vars(DetailSteps)

InitHang ==
  InitWith(MaxUploads, ConcFiles, JobIds, {2}, FALSE, FALSE,
           {[makeBase64 |-> TRUE, whisperBin |-> TRUE]})
SpecHang == InitHang /\ [][NextHang]_vars /\ FairHang

\* Two uploads, where every external process and every file operation
\* returns, without error, and delete requests that arrive once a task has
\* ended; every task and every request in progress takes its next step if
\* that step is possible again and again.
RequestAfterTask == \E u \in Uploads : pc[u] = "done"

NextFair ==
  \/ \E u \in Uploads : Steps(u)
  \/ RequestAfterTask /\ \E d \in lim.ids : DeleteLock(d)
  \/ DeleteSteps

FairAll ==
  /\ \A u \in Uploads : SF_vars(Steps(u))
  /\ WF_vars(DeleteSteps)

SpecFair == InitConc /\ [][NextFair]_vars /\ FairAll


\* ------------------------------------------------------- storage.ListJobs
\* Entries the jobs root may hold, and instants jobs may have been created at.
MaxEntries == 3
MaxTime == 2

\* What a job directory of the listing may hold as job.json: nothing, a
\* record that does not parse, or the record of a job.
ListedJobs ==
  {[ZeroJob EXCEPT !.id = id, !.createdAt = t, !.status = JobStatusCompleted,
                   !.completedAt = t] : id \in JobIds, t \in 1..MaxTime}

ListedFiles == {Absent, Garbled} \cup {Full(Marshal(j)) : j \in ListedJobs}

\* An entry of the jobs root: a plain file, or a directory.
PlainFile == [isDir |-> FALSE]
Directory(f) == [isDir |-> TRUE, dir |-> [NoDir EXCEPT !.dir = TRUE, !.json = f]]
RootEntries == {PlainFile} \cup {Directory(f) : f \in ListedFiles}

\* The jobs root: missing, not readable as a directory, or its entries in
\* the order os.ReadDir returns them (sorted by file name).
Roots ==
  {[state |-> "missing", entries |-> <<>>], [state |-> "unreadable", entries |-> <<>>]}
    \cup {[state |-> "dir", entries |-> e] :
            e \in UNION {[1..n -> RootEntries] : n \in 0..MaxEntries}}

\* jobs[i].CreatedAt.After(jobs[j].CreatedAt), on creation times.
\* (AfterEarlier is Before: a faulty less function that C14 must tell apart.)
AfterEarlier(a, b) == a < b

After(a, b) == a > b

\* One pass of insertion sort with sort.Slice's less function: x, placed
\* after the sorted s, moves left while it was created after its left
\* neighbour. (sort.Slice sorts slices of up to 12 elements this way.)
RECURSIVE SortedInsert(_, _)
SortedInsert(s, x) ==
  IF s = <<>> THEN <<x>>
  ELSE IF After(x.createdAt, s[Len(s)].createdAt)
    THEN Append(SortedInsert(SubSeq(s, 1, Len(s) - 1), x), s[Len(s)])
  ELSE Append(s, x)

RECURSIVE SortSlice(_)
SortSlice(s) ==
  IF s = <<>> THEN <<>>
  ELSE SortedInsert(SortSlice(SubSeq(s, 1, Len(s) - 1)), s[Len(s)])

\* A call of ListJobs(jobsRoot) on that root.
ListJobsCalled(root) ==
  [fn |-> "ListJobs", pc |-> "readdir", root |-> root, i |-> 0, jobs |-> <<>>, err |-> ""]

\* os.ReadDir(jobsRoot): a missing root gives (nil, nil), another error is
\* returned wrapped.
ListReadDir ==
  /\ call.fn = "ListJobs" /\ call.pc = "readdir"
  /\ call' = IF call.root.state = "missing" THEN [call EXCEPT !.pc = "ret"]
             ELSE IF call.root.state = "unreadable"
               THEN [call EXCEPT !.pc = "ret", !.err = "reading jobs directory"]
             ELSE [call EXCEPT !.pc = "entry"]
  /\ UNCHANGED <<lim, cfg, pc, up, job, sv, pr, jobsInFlight, mu, fs, del, rd, top>>

\* One iteration of the loop over the entries: a plain file and a directory
\* LoadJob fails on are passed over.
ListEntry ==
  /\ call.fn = "ListJobs" /\ call.pc = "entry"
  /\ call.i < Len(call.root.entries)
  /\ LET entry == call.root.entries[call.i + 1] IN
     call' = IF entry.isDir /\ LoadJob(entry.dir).err = ""
               THEN [call EXCEPT !.i = @ + 1, !.jobs = Append(@, LoadJob(entry.dir).job)]
               ELSE [call EXCEPT !.i = @ + 1]
  /\ UNCHANGED <<lim, cfg, pc, up, job, sv, pr, jobsInFlight, mu, fs, del, rd, top>>

\* sort.Slice(jobs, ...) after the loop, and the return.
ListSort ==
  /\ call.fn = "ListJobs" /\ call.pc = "entry"
  /\ call.i >= Len(call.root.entries)
  /\ call' = [call EXCEPT !.pc = "ret", !.jobs = SortSlice(@)]
  /\ UNCHANGED <<lim, cfg, pc, up, job, sv, pr, jobsInFlight, mu, fs, del, rd, top>>

ListJobs == ListReadDir \/ ListEntry \/ ListSort

\* ListJobs called on any jobs root of up to MaxEntries entries, with no
\* writer at work in it.
InitList ==
  /\ call \in {ListJobsCalled(root) : root \in Roots}
  /\ ServerInit(0, 0, {}, {}, FALSE, FALSE, {[makeBase64 |-> TRUE, whisperBin |-> TRUE]})
NextList == ListJobs
SpecList == InitList /\ [][NextList]_vars

\* ------------------------------------------------------- wavDuration
\* Sub-chunks a file may hold after its 12-byte header.
MaxChunks == 3

\* The 12-byte header: "RIFF", four bytes of length, "WAVE"; or one that
\* has another tag in either place; or a file that ends after 8 bytes.
HeaderLen == 12
WavHeaders ==
  {[len |-> HeaderLen, riff |-> r, wave |-> w] : r \in {"RIFF", "RIFX"}, w \in {"WAVE", "AVI "}}
    \cup {[len |-> 8, riff |-> "RIFF", wave |-> ""]}

\* The fields of a "fmt " chunk: mono 16 kHz 16 bit, and that with one
\* field changed (none, more or very many channels; no or another rate; no,
\* 4, 12 or 24 bits).
BaseFmt == [channels |-> 1, sampleRate |-> 16000, bitsPerSample |-> 16]
FmtFields ==
  {[BaseFmt EXCEPT !.channels = c] : c \in {0, 1, 2, 32768, 32769}}
    \cup {[BaseFmt EXCEPT !.sampleRate = r] : r \in {0, 8000}}
    \cup {[BaseFmt EXCEPT !.bitsPerSample = b] : b \in {0, 4, 12, 24}}

\* A sub-chunk: its ID, its declared size, and a "fmt " chunk's fields.
FmtChunk(size, f) ==
  [id |-> "fmt ", size |-> size, channels |-> f.channels,
   sampleRate |-> f.sampleRate, bitsPerSample |-> f.bitsPerSample]
DataChunk(size) ==
  [id |-> "data", size |-> size, channels |-> 0, sampleRate |-> 0, bitsPerSample |-> 0]
OtherChunk(size) ==
  [id |-> "LIST", size |-> size, channels |-> 0, sampleRate |-> 0, bitsPerSample |-> 0]

WavChunks ==
  {FmtChunk(16, f) : f \in FmtFields} \cup {FmtChunk(14, BaseFmt)}
    \cup {DataChunk(n) : n \in {0, 32000}}
    \cup {OtherChunk(n) : n \in {3, 4}}

\* A file: the header, the sub-chunks in their order, and whether the file
\* ends right after the last sub-chunk's 8-byte header (cut) or holds every
\* sub-chunk's bytes, word-aligned.
WavFiles ==
  {[hdr |-> h, chunks |-> c, cut |-> t] :
     h \in WavHeaders, t \in BOOLEAN,
     c \in UNION {[1..n -> WavChunks] : n \in 0..MaxChunks}}

\* The bytes a sub-chunk's payload takes in the file, pad byte included.
Stored(c) == IF c.id = "fmt " THEN c.size ELSE c.size + (c.size % 2)

\* The offset of sub-chunk k's header (k = Len + 1: the end of the last).
RECURSIVE Offset(_, _)
Offset(file, k) ==
  IF k = 1 THEN file.hdr.len ELSE Offset(file, k - 1) + 8 + Stored(file.chunks[k - 1])

FileLen(file) ==
  IF file.chunks = <<>> THEN file.hdr.len
  ELSE IF file.cut THEN Offset(file, Len(file.chunks)) + 8
  ELSE Offset(file, Len(file.chunks) + 1)

\* The sub-chunk whose header starts at that offset; 0 when none does.
ChunkAt(file, pos) ==
  IF \E k \in DOMAIN file.chunks : Offset(file, k) = pos
    THEN CHOOSE k \in DOMAIN file.chunks : Offset(file, k) = pos
    ELSE 0

\* A call of wavDuration(path) on that file, after os.Open.
WavDurationCalled(file) ==
  [fn |-> "wavDuration", pc |-> "header", file |-> file, pos |-> 0,
   sampleRate |-> 0, bitsPerSample |-> 0, channels |-> 0, dataSize |-> 0,
   err |-> "", num |-> 0, den |-> 1]

\* return 0, err
WavError(err) == [call EXCEPT !.pc = "ret", !.err = err]

\* The header check: bytes 0-3 and 8-11.
MagicRiffOnly(hdr) == hdr.riff = "RIFF"

MagicOk(hdr) == hdr.riff = "RIFF" /\ hdr.wave = "WAVE"

\* io.ReadFull of the 12-byte header, and the check of its two tags.
WavHeader ==
  /\ call.fn = "wavDuration" /\ call.pc = "header"
  /\ call' = IF FileLen(call.file) < HeaderLen THEN WavError("unexpected EOF")
             ELSE IF ~MagicOk(call.file.hdr) THEN WavError("not a WAV file")
             ELSE [call EXCEPT !.pc = "chunk", !.pos = HeaderLen]
  /\ UNCHANGED <<lim, cfg, pc, up, job, sv, pr, jobsInFlight, mu, fs, del, rd, top>>

\* A faulty loop iteration that skips no pad byte: C22 must tell it apart.
WavChunkNoPad ==
  /\ call.fn = "wavDuration" /\ call.pc = "chunk"
  /\ LET file == call.file
         k == ChunkAt(file, call.pos)
         c == file.chunks[k]
         body == call.pos + 8
     IN call' =
          IF body > FileLen(file) THEN WavError("EOF")
          ELSE IF k = 0 THEN WavError("cursor off the chunk headers")
          ELSE IF c.id = "fmt " THEN
            IF body + c.size > FileLen(file) THEN WavError("unexpected EOF")
            ELSE IF c.size < 16 THEN WavError("invalid fmt chunk")
            ELSE [call EXCEPT !.channels = c.channels, !.sampleRate = c.sampleRate,
                              !.bitsPerSample = c.bitsPerSample, !.pos = body + c.size]
          ELSE IF c.id = "data" THEN
            [call EXCEPT !.dataSize = c.size, !.pos = body, !.pc = "compute"]
          ELSE [call EXCEPT !.pos = body + c.size]
  /\ UNCHANGED <<lim, cfg, pc, up, job, sv, pr, jobsInFlight, mu, fs, del, rd, top>>

\* One iteration of the loop over the sub-chunks: io.ReadFull of the 8-byte
\* chunk header at the cursor, then the switch on the chunk ID. A "fmt "
\* chunk is read whole; a "data" chunk gives its declared size and ends the
\* loop; any other chunk is skipped with file.Seek, which does not fail on
\* an offset past the end. (A cursor that is not at a sub-chunk's header
\* would read bytes this model does not hold.)
WavChunk ==
  /\ call.fn = "wavDuration" /\ call.pc = "chunk"
  /\ LET file == call.file
         k == ChunkAt(file, call.pos)
         c == file.chunks[k]
         body == call.pos + 8
     IN call' =
          IF body > FileLen(file) THEN WavError("EOF")
          ELSE IF k = 0 THEN WavError("cursor off the chunk headers")
          ELSE IF c.id = "fmt " THEN
            IF body + c.size > FileLen(file) THEN WavError("unexpected EOF")
            ELSE IF c.size < 16 THEN WavError("invalid fmt chunk")
            ELSE [call EXCEPT !.channels = c.channels, !.sampleRate = c.sampleRate,
                              !.bitsPerSample = c.bitsPerSample, !.pos = body + c.size]
          ELSE IF c.id = "data" THEN
            [call EXCEPT !.dataSize = c.size, !.pos = body, !.pc = "compute"]
          ELSE [call EXCEPT !.pos = body + c.size + (c.size % 2)]
  /\ UNCHANGED <<lim, cfg, pc, up, job, sv, pr, jobsInFlight, mu, fs, del, rd, top>>

\* uint16 arithmetic.
Wrap16 == 65536

\* A faulty bytes-per-sample that takes bits for bytes: C15 must tell it apart.
BytesPerSampleOfBits(bitsPerSample, channels) == (bitsPerSample * channels) % Wrap16

\* bytesPerSample := (bitsPerSample / 8) * channels, in uint16.
BytesPerSample(bitsPerSample, channels) == ((bitsPerSample \div 8) * channels) % Wrap16

\* The checks after the loop and the duration, float64(dataSize) /
\* float64(bytesPerSample) / float64(sampleRate), kept as the fraction
\* num / den. (Both divisors are positive here, so the result is finite.)
WavCompute ==
  /\ call.fn = "wavDuration" /\ call.pc = "compute"
  /\ LET bytesPerSample == BytesPerSample(call.bitsPerSample, call.channels) IN
     call' =
       IF call.sampleRate = 0 \/ call.channels = 0 \/ call.bitsPerSample = 0
         THEN WavError("missing audio format information")
       ELSE IF bytesPerSample = 0 THEN WavError("invalid bytes per sample")
       ELSE [call EXCEPT !.pc = "ret", !.num = call.dataSize,
                         !.den = bytesPerSample * call.sampleRate]
  /\ UNCHANGED <<lim, cfg, pc, up, job, sv, pr, jobsInFlight, mu, fs, del, rd, top>>

wavDuration == WavHeader \/ WavChunk \/ WavCompute

\* wavDuration called on any file of up to MaxChunks sub-chunks.
InitWav ==
  /\ call \in {WavDurationCalled(file) : file \in WavFiles}
  /\ ServerInit(0, 0, {}, {}, FALSE, FALSE, {[makeBase64 |-> TRUE, whisperBin |-> TRUE]})
NextWav == wavDuration
SpecWav == InitWav /\ [][NextWav]_vars

\* ================================================================ claims
\* Where an upload stands between the start of its background task and the
\* return of the task's final SaveJob.
InSave(u, site) == pc[u] \in {"sj_mkdir", "sj_open", "sj_write", "sj_rename"} /\ sv[u].site = site

TaskRunning(u) ==
  \/ pc[u] \in {"pj_begin", "lookpath", "mkdirs", "ffmpeg", "glob", "loop", "wav",
                "b64", "whisper", "preview", "pj_finish", "unreg"}
  \/ InSave(u, 2) \/ InSave(u, 3)

\* The files of the job directories a reader can open.
JobFiles == {fs[d].json : d \in JobIds} \cup {fs[d].tmp : d \in JobIds}

\* A delete request's os.RemoveAll takes something away from the directory.
DeleteRemoves == (DeleteUnlink \/ DeleteRmdir) /\ fs' # fs

\* C1: a delete request that finds the job ID in the in-flight registry is
\* refused (busy) and leaves the directory as it is, and no delete request
\* removes anything of the directory of a job whose ID is in the registry.
C1_DeleteRefusedWhileInFlight ==
  [][/\ (DeleteUnlock /\ del.inFlight) => (del'.pc = "busy" /\ fs' = fs)
     /\ DeleteRemoves => jobsInFlight[del.id] = 0]_vars

\* C2: a request handler's LoadJob never returns a job whose status is
\* earlier in the order pending < processing < terminal than a status the
\* job's job.json held (and so could have been loaded) before.
C2_NoStatusRegression ==
  [][\A d \in JobIds :
       (DetailLoad(d) /\ rd'.pc = "lock") => StageOf(rd'.res) >= top[d]]_vars

\* C3: a job that ended failed after Process had appended k >= 1 chunks
\* keeps every one of those k chunks in its chunk sequence.
C3_FailedJobKeepsChunks ==
  \A u \in Uploads :
    (job[u].status = JobStatusFailed /\ Len(pr[u].chunks) >= 1)
      => job[u].chunks = pr[u].chunks

\* completedAt is set exactly when the status is terminal.
CompletedAtIffDone(j) == (j.completedAt # NilTime) <=> IsDone(j)

\* C4: in every in-memory Job and every job record on disk, completedAt is
\* set if and only if the status is completed or failed.
C4_CompletedAtIffTerminal ==
  /\ \A u \in Uploads : CompletedAtIffDone(job[u])
  /\ \A f \in JobFiles : f.kind = "full" => CompletedAtIffDone(Unmarshal(f.data))

C4_Witness ==
  \E d \in JobIds :
    /\ fs[d].json.kind = "full"
    /\ Unmarshal(fs[d].json.data).status = JobStatusFailed
    /\ Unmarshal(fs[d].json.data).completedAt # NilTime
    /\ \E u \in Uploads : job[u].status = JobStatusFailed

\* errorMessage is non-empty exactly when the status is failed.
ErrorIffFailed(j) == (j.errorMessage # "") <=> (j.status = JobStatusFailed)

\* C5: in every in-memory Job and every job record on disk, errorMessage is
\* non-empty if and only if the status is failed.
C5_ErrorMessageIffFailed ==
  /\ \A u \in Uploads : ErrorIffFailed(job[u])
  /\ \A f \in JobFiles : f.kind = "full" => ErrorIffFailed(Unmarshal(f.data))

C5_Witness ==
  /\ \E d \in JobIds :
       /\ fs[d].json.kind = "full"
       /\ Unmarshal(fs[d].json.data).status = JobStatusCompleted
       /\ Unmarshal(fs[d].json.data).errorMessage = ""
  /\ \E u \in Uploads : job[u].status = JobStatusCompleted /\ pc[u] = "done"

\* C6: from the start of a job's background task until its final SaveJob
\* has returned, the job's ID is in the in-flight registry.
C6_RegisteredWhileRunning ==
  \A u \in Uploads : (pc[u] = "spawn" \/ TaskRunning(u)) => jobsInFlight[up[u].jobID] # 0

\* C7: job.json is at every moment absent or one complete saved record, so
\* no reader, and no crash at any step, finds a partially written one.
C7_JobFileAbsentOrComplete ==
  \A d \in JobIds : fs[d].json.kind \in {"absent", "full"}

\* The number of delimiter-separated entries of a processing log.
EntryCount(log) == 1 + Cardinality({i \in DOMAIN log : log[i] = Delimiter})

\* The job of upload u as its job.json holds it, when it holds one.
Persisted(u) ==
  LET f == fs[up[u].jobID].json
  IN IF up[u].jobID # "" /\ f.kind = "full" THEN {Unmarshal(f.data)} ELSE {}

\* C8 as stated: the processing log of a job in a terminal state has as
\* many delimiter-separated entries as external commands were invoked for
\* it, and nothing else.
C8_LogEntriesEqualInvocations ==
  \A u \in Uploads : \A j \in {job[u]} \cup Persisted(u) :
    IsDone(j) => EntryCount(j.processingLog) = pr[u].calls

\* C8, amended: the processing log of a completed job has one entry per
\* external command invoked for it, and that of a failed job has those
\* entries followed by one more, the error text.
C8_LogEntriesInvocationsPlusError ==
  \A u \in Uploads : \A j \in {job[u]} \cup Persisted(u) :
    /\ j.status = JobStatusCompleted => EntryCount(j.processingLog) = pr[u].calls
    /\ j.status = JobStatusFailed =>
         /\ EntryCount(j.processingLog) = pr[u].calls + 1
         /\ j.processingLog[Len(j.processingLog)] = j.errorMessage

C8_Witness ==
  \E u \in Uploads : \E j \in Persisted(u) :
    /\ j.status = JobStatusFailed
    /\ pr[u].calls = 2
    /\ EntryCount(j.processingLog) = 3

\* The chunk sequences Process has built or returned for upload u.
ChunkSeqs(u) == {pr[u].chunks, pr[u].result.chunks, job[u].chunks}

\* C9: in every chunk sequence of Process, the chunk at position i (from 0)
\* has index i, is the file at position i of the discovered names, which are
\* in increasing lexicographic order, and starts at i times the requested
\* chunk duration.
C9_ChunksIndexedInNameOrder ==
  \A u \in Uploads : \A c \in ChunkSeqs(u) :
    /\ \A i \in DOMAIN c :
         /\ c[i].index = i - 1
         /\ c[i].startSeconds = (i - 1) * up[u].chunkDuration
         /\ c[i].audioFile = <<"chunks", pr[u].chunkFiles[i]>>
    /\ \A i, k \in DOMAIN c : i < k => LexLess(c[i].audioFile[2], c[k].audioFile[2])

C9_Witness ==
  \E u \in Uploads :
    /\ job[u].status = JobStatusCompleted
    /\ Len(job[u].chunks) = MaxFiles
    /\ up[u].chunkDuration = 3
    /\ job[u].chunks[MaxFiles].startSeconds = (MaxFiles - 1) * 3

\* C10: once a job's status is completed or failed, no step changes a field
\* of the job in memory, and no step of the coordinator changes the job's
\* record in job.json.
C10_TerminalJobUnchanged ==
  [][/\ \A u \in Uploads : IsDone(job[u]) => job'[u] = job[u]
     /\ \A d \in JobIds :
          (FileStage(fs[d].json) = StageOf(JobStatusCompleted) /\ ~DeleteRemoves)
            => fs'[d].json = fs[d].json]_vars

\* Process has returned to processJob.
Returned(u) ==
  pc[u] \in {"pj_finish", "unreg", "unreg_unlock", "done"} \/ InSave(u, 3)

\* C11: a run of Process that discovered no chunk file returns an error,
\* a run that returns no error returns at least one chunk, and every job in
\* status completed, in memory or persisted, has at least one chunk.
C11_EmptyResultIsError ==
  \A u \in Uploads :
    /\ Returned(u) =>
         /\ pr[u].chunkFiles = <<>> => pr[u].err # ""
         /\ pr[u].err = "" => Len(pr[u].result.chunks) >= 1
    /\ \A j \in {job[u]} \cup Persisted(u) :
         j.status = JobStatusCompleted => Len(j.chunks) >= 1

C11_Witness ==
  \E u \in Uploads :
    /\ Returned(u)
    /\ pr[u].calls = 1
    /\ pr[u].err = "no audio chunks produced"
    /\ job[u].status = JobStatusFailed
    /\ job[u].chunks = <<>>

\* The previews a chunk gets when its transcription failed.
Placeholders == {"transcription failed", "unable to read transcript"}

\* The chunk a step of upload u appended to Process's chunk list.
Appended(u) == pr'[u].chunks[Len(pr'[u].chunks)]

\* A step of upload u appended the chunk in work, with index idx, and went
\* on to the loop head for the next file.
AppendsChunk(u) ==
  /\ pc'[u] = "loop"
  /\ pr'[u].idx = pr[u].idx + 1
  /\ Len(pr'[u].chunks) = Len(pr[u].chunks) + 1
  /\ SubSeq(pr'[u].chunks, 1, Len(pr[u].chunks)) = pr[u].chunks
  /\ Appended(u).index = pr[u].idx
  /\ pr'[u].chunkFiles = pr[u].chunkFiles

\* C12: the transcription of a chunk never ends Process. A failed run of the
\* transcription binary, or a transcript that cannot be read, appends the
\* chunk with a placeholder preview and no transcript file path, and the
\* loop goes on with the next file.
C12_TranscriptionFailureNotFatal ==
  [][\A u \in Uploads :
       /\ (pc[u] = "whisper" /\ pc'[u] # "whisper") =>
            \/ pc'[u] = "preview" /\ pr'[u].chunks = pr[u].chunks
            \/ /\ AppendsChunk(u)
               /\ Appended(u).transcriptPreview = "transcription failed"
               /\ Appended(u).transcriptFile = <<>>
       /\ (pc[u] = "preview" /\ pc'[u] # "preview") =>
            /\ AppendsChunk(u)
            /\ \/ Appended(u).transcriptFile # <<>>
               \/ Appended(u).transcriptPreview = "unable to read transcript"]_vars

C12_Witness ==
  \E u \in Uploads :
    /\ job[u].status = JobStatusCompleted
    /\ Len(job[u].chunks) = 2
    /\ job[u].chunks[1].transcriptPreview \in Placeholders
    /\ job[u].chunks[1].transcriptFile = <<>>
    /\ job[u].chunks[2].transcriptFile # <<>>

\* C13: every iteration of Process's loop starts with the check of ctx, so
\* work on a chunk file starts only from a loop head that found ctx not
\* done; a loop head with a file left that finds ctx done returns the
\* cancellation error and no chunks, whatever chunks were built before.
C13_CancelCheckedBeforeEachChunk ==
  [][\A u \in Uploads :
       /\ (pc'[u] = "wav" /\ pc[u] # "wav") => (pc[u] = "loop" /\ ~pr[u].ctxDone)
       /\ (pc[u] = "loop" /\ pc'[u] # "loop" /\ pr[u].idx < Len(pr[u].chunkFiles)
             /\ pr[u].ctxDone) =>
            /\ pc'[u] = "pj_finish"
            /\ pr'[u].err = "context canceled"
            /\ pr'[u].result.chunks = <<>>]_vars

C13_Witness ==
  \E u \in Uploads :
    /\ Returned(u)
    /\ pr[u].err = "context canceled"
    /\ Len(pr[u].chunks) >= 1
    /\ pr[u].result.chunks = <<>>
    /\ job[u].status = JobStatusFailed

\* The entries of a root that are directories whose job.json loads as j.
LoadsAs(root, j) ==
  {k \in DOMAIN root.entries :
     /\ root.entries[k].isDir
     /\ LoadJob(root.entries[k].dir) = [err |-> "", job |-> j]}

\* The jobs some directory of the root loads as.
LoadableJobs(root) ==
  {LoadJob(root.entries[k].dir).job :
     k \in {n \in DOMAIN root.entries :
              root.entries[n].isDir /\ LoadJob(root.entries[n].dir).err = ""}}

\* C14: ListJobs returns, without an error, each job as often as a directory
\* of the jobs root loads as it and nothing else, newest first; plain files
\* and directories without a loadable job.json are left out; a missing root
\* gives no jobs and no error.
C14_ListJobsLoadableNewestFirst ==
  (call.fn = "ListJobs" /\ call.pc = "ret" /\ call.root.state # "unreadable") =>
    /\ call.err = ""
    /\ call.root.state = "missing" => call.jobs = <<>>
    /\ \A j \in LoadableJobs(call.root) \cup {call.jobs[i] : i \in DOMAIN call.jobs} :
         Cardinality({i \in DOMAIN call.jobs : call.jobs[i] = j})
           = Cardinality(LoadsAs(call.root, j))
    /\ \A i, k \in DOMAIN call.jobs :
         i < k => call.jobs[i].createdAt >= call.jobs[k].createdAt

C14_Witness ==
  /\ call.fn = "ListJobs" /\ call.pc = "ret"
  /\ Len(call.root.entries) = 3
  /\ ~call.root.entries[1].isDir
  /\ call.root.entries[2].isDir /\ LoadJob(call.root.entries[2].dir).err = ""
  /\ call.root.entries[3].isDir /\ LoadJob(call.root.entries[3].dir).err = ""
  /\ LoadJob(call.root.entries[2].dir).job.createdAt
       < LoadJob(call.root.entries[3].dir).job.createdAt
  /\ call.jobs = <<LoadJob(call.root.entries[3].dir).job,
                   LoadJob(call.root.entries[2].dir).job>>

\* The first "data" sub-chunk of a file (0: none), and the "fmt " sub-chunks
\* before it.
FirstData(file) ==
  IF \E k \in DOMAIN file.chunks : file.chunks[k].id = "data"
    THEN CHOOSE k \in DOMAIN file.chunks :
           /\ file.chunks[k].id = "data"
           /\ \A n \in 1..(k - 1) : file.chunks[n].id # "data"
    ELSE 0

FmtBefore(file) == {k \in 1..(FirstData(file) - 1) : file.chunks[k].id = "fmt "}

\* A PCM WAV file: the RIFF/WAVE header, then one "fmt " sub-chunk of 16
\* bytes with non-zero channels, sample rate and bits per sample, then,
\* possibly after other sub-chunks, a "data" sub-chunk.
PcmWav(file) ==
  /\ file.hdr.len = HeaderLen /\ file.hdr.riff = "RIFF" /\ file.hdr.wave = "WAVE"
  /\ FirstData(file) # 0
  /\ Cardinality(FmtBefore(file)) = 1
  /\ \A k \in FmtBefore(file) :
       /\ file.chunks[k].size >= 16
       /\ file.chunks[k].channels # 0
       /\ file.chunks[k].sampleRate # 0
       /\ file.chunks[k].bitsPerSample # 0

\* The "fmt " sub-chunk and the "data" sub-chunk of a PCM WAV file.
FmtOf(file) == file.chunks[CHOOSE k \in FmtBefore(file) : TRUE]
DataOf(file) == file.chunks[FirstData(file)]

\* The call returned the duration dataSize / bytes / sampleRate: the fraction
\* num / den with that numerator and that denominator (any denominator when
\* the numerator is 0).
ReturnsDuration(dataSize, bytes, sampleRate) ==
  /\ call.err = ""
  /\ bytes # 0 /\ call.den # 0
  /\ call.num = dataSize
  /\ dataSize # 0 => call.den = bytes * sampleRate

WavReturned == call.fn = "wavDuration" /\ call.pc = "ret"

\* C15 as stated: for every PCM WAV file wavDuration succeeds and returns
\* dataSize / (channels * (bitsPerSample / 8)) / sampleRate.
C15_DurationForNonZeroFormat ==
  (WavReturned /\ PcmWav(call.file)) =>
    LET f == FmtOf(call.file) IN
    ReturnsDuration(DataOf(call.file).size, f.channels * (f.bitsPerSample \div 8),
                    f.sampleRate)

\* C15, amended: for every PCM WAV file with at least 8 bits per sample
\* whose bytes-per-sample product channels * (bitsPerSample div 8) is below
\* 65536, wavDuration succeeds and returns dataSize divided by that product
\* and by the sample rate (exactly 1 for mono, 16000 Hz, 16 bit, 32000
\* bytes); with fewer than 8 bits per sample it returns the error "invalid
\* bytes per sample".
C15_DurationForWholeByteSamples ==
  (WavReturned /\ PcmWav(call.file)) =>
    LET f == FmtOf(call.file)
        bytes == f.channels * (f.bitsPerSample \div 8)
    IN /\ (f.bitsPerSample >= 8 /\ bytes < Wrap16) =>
            ReturnsDuration(DataOf(call.file).size, bytes, f.sampleRate)
       /\ (f = BaseFmt /\ DataOf(call.file).size = 32000) =>
            (call.err = "" /\ call.num = call.den)
       /\ f.bitsPerSample < 8 => call.err = "invalid bytes per sample"

C15_Witness ==
  /\ WavReturned /\ PcmWav(call.file)
  /\ FmtOf(call.file) = FmtChunk(16, [BaseFmt EXCEPT !.bitsPerSample = 24])
  /\ DataOf(call.file).size = 32000
  /\ Len(call.file.chunks) = 3
  /\ call.err = ""
  /\ call.num = 32000 /\ call.den = 48000

\* C16: for every file whose first 12 bytes do not hold "RIFF" at 0-3 and
\* "WAVE" at 8-11, wavDuration returns an error and no duration, whatever
\* sub-chunks follow; it reads nothing past the header.
C16_BadMagicIsError ==
  (WavReturned /\ ~(/\ call.file.hdr.len = HeaderLen
                    /\ call.file.hdr.riff = "RIFF"
                    /\ call.file.hdr.wave = "WAVE")) =>
    /\ call.err # ""
    /\ call.num = 0
    /\ call.pos = 0

C16_Witness ==
  /\ WavReturned
  /\ call.file.hdr = [len |-> HeaderLen, riff |-> "RIFF", wave |-> "AVI "]
  /\ call.file.chunks = <<FmtChunk(16, BaseFmt), DataChunk(32000)>>
  /\ call.err = "not a WAV file"

\* handleUpload has accepted upload u: it went on to spawn the task and to
\* redirect to the job page.
Accepted(u) == TaskRunning(u) \/ pc[u] \in {"unreg_unlock", "done"}

\* C17: any two uploads accepted by handleUpload, two handled within the
\* same second included, have different job IDs (and so different job
\* directories and registry entries).
C17_JobIdsUnique ==
  \A u, v \in Uploads :
    (u # v /\ Accepted(u) /\ Accepted(v)) => job[u].id # job[v].id

\* The goroutine that holds the registry lock is between a Lock and the
\* Unlock that follows the registry access.
LockAroundRegistryOnly ==
  /\ \A u \in Uploads : mu = UpTid(u) => pc[u] \in {"reg_unlock", "unreg_unlock"}
  /\ mu = DelTid => del.pc = "unlock"
  /\ mu = DetailTid => rd.pc = "unlock"
  /\ \A u \in Uploads : pc[u] \in {"reg_unlock", "unreg_unlock"} => mu = UpTid(u)

\* C18: the registry lock is held only between a Lock and the Unlock after
\* the registry insert, check or delete, never during file I/O or an
\* external process; and while the external process of upload 1 may never
\* return, upload 2, once accepted, reaches a terminal state, deletes its
\* ID from the registry and ends, and every job page request and delete
\* request in progress gets its response.
C18_HangingJobBlocksNoOne ==
  /\ []LockAroundRegistryOnly
  /\ [][Unregister(2) => jobsInFlight'[job[2].id] = 0]_vars
  /\ Accepted(2) ~> (pc[2] = "done" /\ IsDone(job[2]))
  /\ (rd.pc # "idle") ~> (rd.pc = "idle")
  /\ (del.pc # "idle") ~> (del.pc = "idle")

\* Upload 2 has finished and left the registry while the transcoder of
\* upload 1, started before, has not returned.
C18_Witness ==
  /\ pc[1] = "ffmpeg"
  /\ pc[2] = "done" /\ IsDone(job[2])
  /\ job[1].id # job[2].id
  /\ jobsInFlight[job[2].id] = 0 /\ jobsInFlight[job[1].id] # 0
  /\ mu = Free

\* The step is the return of upload u's SaveJob call of that site with an error.
SaveFails(u, site) ==
  /\ InSave(u, site)
  /\ pc'[u] \notin {"sj_mkdir", "sj_open", "sj_write", "sj_rename"}
  /\ sv'[u].err

\* The step is one of upload u's SaveJob other than a rename that succeeds.
SaveStepShortOfRename(u) ==
  SaveJob(u) /\ ~(pc[u] = "sj_rename" /\ ~sv'[u].err)

\* C19: a SaveJob of processJob that fails neither stops processJob nor
\* changes the job in memory. When the save of the processing record fails,
\* Process is called next and the status is processing throughout it; when
\* the final save fails, the job keeps its terminal status and the task goes
\* on to delete the ID from the registry, so a task that has ended has a
\* terminal job and no registry entry. No step of a SaveJob call short of
\* its successful rename changes job.json: the record stays as the last
\* successful save left it.
C19_FailedSaveIsOnlyLogged ==
  /\ [][\A u \in Uploads :
          /\ SaveFails(u, 2) =>
               /\ pc'[u] = "lookpath"
               /\ job'[u] = job[u] /\ job[u].status = JobStatusProcessing
          /\ SaveFails(u, 3) =>
               /\ pc'[u] = "unreg"
               /\ job'[u] = job[u] /\ IsDone(job[u])
          /\ SaveStepShortOfRename(u) =>
               fs'[up[u].jobID].json = fs[up[u].jobID].json]_vars
  /\ [](\A u \in Uploads :
          /\ InProcess(u) => job[u].status = JobStatusProcessing
          /\ pc[u] = "done" => (IsDone(job[u]) /\ jobsInFlight[job[u].id] = 0))

\* Both saves of processJob failed: the job completed in memory and left the
\* registry, and job.json still holds the pending record of handleUpload.
C19_Witness ==
  \E u \in Uploads :
    /\ pc[u] = "done" /\ sv[u].err
    /\ job[u].status = JobStatusCompleted /\ Len(job[u].chunks) >= 1
    /\ jobsInFlight[job[u].id] = 0
    /\ FileStage(fs[job[u].id].json) = StageOf(JobStatusPending)
    /\ top[job[u].id] = StageOf(JobStatusPending)

\* The transcoder is being invoked or a chunk is being processed for upload u.
PipelineWork(u) == pc[u] \in {"ffmpeg", "glob", "loop", "wav", "b64", "whisper", "preview"}

\* C20 as stated: at every moment at which the transcoder is being invoked
\* or a chunk is being processed for a job, the job's persisted record has
\* the status processing.
C20_ProcessingPersistedDuringPipeline ==
  \A u \in Uploads :
    PipelineWork(u) => FileStage(fs[job[u].id].json) = StageOf(JobStatusProcessing)

\* C20, amended: at every moment of Process, the save of the processing
\* record has been called and has returned; if it returned without error,
\* job.json has held the processing record, and holds it still unless a
\* delete request has removed the file; if it returned an error, job.json
\* does not hold the processing record (it holds the pending one, or is gone).
C20_ProcessingSaveReturnedBeforePipeline ==
  \A u \in Uploads :
    InProcess(u) =>
      /\ sv[u].site = 2
      /\ job[u].status = JobStatusProcessing
      /\ ~sv[u].err =>
           /\ top[job[u].id] >= StageOf(JobStatusProcessing)
           /\ \/ FileStage(fs[job[u].id].json) = StageOf(JobStatusProcessing)
              \/ fs[job[u].id].json = Absent
      /\ sv[u].err =>
           \/ FileStage(fs[job[u].id].json) = StageOf(JobStatusPending)
           \/ fs[job[u].id].json = Absent

\* A chunk is being inspected after a successful save of the processing
\* record, which job.json holds.
C20_Witness ==
  \E u \in Uploads :
    /\ pc[u] = "wav" /\ ~sv[u].err
    /\ FileStage(fs[job[u].id].json) = StageOf(JobStatusProcessing)
    /\ top[job[u].id] = StageOf(JobStatusProcessing)

\* C21: an external process invocation that has started is never
\* interrupted by the cancellation signal. With the input and the output
\* directory in place and no fault, an invocation during which the context
\* is cancelled still ends as it would have (the transcoder with exit status
\* zero and the chunk files, the transcription with its transcript), and
\* Process returns on account of the cancellation only from the check at
\* the head of the chunk loop.
C21_InvocationNeverInterrupted ==
  [][\A u \in Uploads :
       pr[u].ctxDone =>
         /\ (pc[u] = "ffmpeg" /\ pc'[u] # "ffmpeg") => pc'[u] = "glob"
         /\ (pc[u] = "whisper" /\ pc'[u] # "whisper") => pc'[u] = "preview"
         /\ (pc[u] # "pj_finish" /\ pc'[u] = "pj_finish") => pc[u] = "loop"]_vars

\* The loop iteration at hand reads the header of a sub-chunk of the file.
AtChunk(k) ==
  /\ call.fn = "wavDuration" /\ call.pc = "chunk"
  /\ k = ChunkAt(call.file, call.pos) /\ k # 0
  /\ call.pos + 8 <= FileLen(call.file)

\* C22: in the sub-chunk walk, a chunk that is neither "fmt " nor "data"
\* moves the cursor past its header by its size, and by one more byte when
\* the size is odd, and changes nothing else; the first "data" chunk ends
\* the walk with its declared size recorded and the cursor at the start of
\* its payload, so the cursor never passes that point; and a file with no
\* "fmt " chunk before its first "data" chunk is rejected with an error,
\* also when a "fmt " chunk follows.
C22_WalkSkipsAndStopsAtData ==
  /\ [][\A k \in 1..MaxChunks :
          AtChunk(k) =>
            LET c == call.file.chunks[k] IN
            /\ c.id \notin {"fmt ", "data"} =>
                 call' = [call EXCEPT !.pos = call.pos + 8 + c.size
                                               + (IF c.size % 2 = 1 THEN 1 ELSE 0)]
            /\ c.id = "data" =>
                 call' = [call EXCEPT !.pc = "compute", !.dataSize = c.size,
                                      !.pos = call.pos + 8]]_vars
  /\ [](call.fn = "wavDuration" =>
          /\ FirstData(call.file) # 0 =>
               call.pos <= Offset(call.file, FirstData(call.file)) + 8
          /\ (WavReturned /\ FirstData(call.file) # 0 /\ FmtBefore(call.file) = {}) =>
               (call.err # "" /\ call.num = 0))

\* A file with an odd-sized chunk, then "data", then "fmt ": rejected for
\* its missing format, with the cursor at the start of the data payload.
C22_Witness ==
  /\ WavReturned
  /\ call.file.hdr = [len |-> HeaderLen, riff |-> "RIFF", wave |-> "WAVE"]
  /\ call.file.chunks = <<OtherChunk(3), DataChunk(32000), FmtChunk(16, BaseFmt)>>
  /\ ~call.file.cut
  /\ call.pos = 32 /\ call.dataSize = 32000
  /\ call.err = "missing audio format information"

\* Upload u is between the return of handleUpload's SaveJob of the pending
\* record and the return of its task's final SaveJob.
PersistedUnfinished(u) ==
  \/ pc[u] \in {"register", "reg_unlock", "spawn", "pj_begin", "pj_finish"}
  \/ InProcess(u)
  \/ InSave(u, 2) \/ InSave(u, 3)

\* The step is a delete request's registry check that finds ID d absent.
DeletePassesCheck(d) == DeleteLock(d) /\ ~del'.inFlight

\* C23: from the return of handleUpload's SaveJob of the pending record to
\* the return of the task's final SaveJob, no delete request for the job's
\* ID passes the in-flight check, and none removes anything of the job
\* directory.
C23_NoDeleteOnceJobPersisted ==
  [][\A u \in Uploads :
       PersistedUnfinished(u) =>
         /\ ~DeletePassesCheck(up[u].jobID)
         /\ ~(DeleteRemoves /\ del.id = up[u].jobID)]_vars

\* C24: every upload that handleUpload accepted eventually has a terminal
\* status and a task that has ended; the task's delete takes the job's ID
\* out of the registry; and from then on the check of a delete request for
\* that ID finds it absent, so the request is not refused as busy.
C24_AcceptedJobEndsAndLeavesRegistry ==
  /\ \A u \in Uploads : Accepted(u) ~> (pc[u] = "done" /\ IsDone(job[u]))
  /\ [][\A u \in Uploads : Unregister(u) => jobsInFlight'[job[u].id] = 0]_vars
  /\ [][\A u \in Uploads :
          (pc[u] = "done" /\ DeleteLock(job[u].id)) => ~del'.inFlight]_vars

\* The bytes-per-sample product of the format the call read, as a number.
TrueProduct == (call.bitsPerSample \div 8) * call.channels

\* C25: the 16-bit product (bitsPerSample / 8) * channels equals the
\* mathematical product for the format wavDuration read, whatever it is;
\* so the error "invalid bytes per sample" is returned only when the
\* product is zero, and a returned duration is dataSize divided by the
\* product and the sample rate.
C25_ProductNeverWraps ==
  WavReturned =>
    /\ BytesPerSample(call.bitsPerSample, call.channels) = TrueProduct
    /\ call.err = "invalid bytes per sample" => TrueProduct = 0
    /\ (call.err = "" /\ call.dataSize # 0) => call.den = TrueProduct * call.sampleRate

====
